---- MODULE Spec2Model ----
(***************************************************************************)
(* adv::Store<T>, a sequence container wrapping std::vector<T>.            *)
(*                                                                         *)
(* Two headers define the class: advance_store.hpp (the full variant,      *)
(* bounds-checked, with filter/transform/conversions) and                  *)
(* advance_store_mini.hpp (the minimal variant, mostly unchecked).         *)
(* The model instantiates T = int over a small range of values and keeps   *)
(* one store per variant.  Every member function is one action; the value  *)
(* it returns, the error it throws and the contents before the call are    *)
(* recorded so that the contracts can be stated over single states.        *)
(***************************************************************************)
EXTENDS Integers, Sequences, FiniteSets

\* ------------------------------------------------------------------
\* Bounds of the model
\* ------------------------------------------------------------------
MaxLen == 3
MaxVal == 1
SizeBits == 8
MaxStrLen == 2
IntBits == 5

Values == 0..MaxVal
Positions == 0..(MaxLen + 2)
SizeModulus == 2 ^ SizeBits

VARIABLES variant, m_data, m_cap, mini_data, mini_size, mini_cap, mini_ub,
          op, arg, err, ret, result, other, old_data, old_cap, reserved

vars == <<variant, m_data, m_cap, mini_data, mini_size, mini_cap, mini_ub,
          op, arg, err, ret, result, other, old_data, old_cap, reserved>>

full_vars == <<m_data, m_cap>>
mini_vars == <<mini_data, mini_size, mini_cap, mini_ub>>

\* ------------------------------------------------------------------
\* Helpers on sequences (std::vector / <algorithm> primitives)
\* ------------------------------------------------------------------
SeqsUpTo(n) == UNION {[1..k -> Values] : k \in 0..n}

Max2_first(a, b) == a

Max2(a, b) == IF a >= b THEN a ELSE b

\* no reserve(n) is in effect
NoReserve == 0 - 1

\* vector::insert(begin() + pos, value): elements at pos.. move up by one
InsertAt_after(s, pos, v) ==
    LET p == IF pos < Len(s) THEN pos + 1 ELSE pos
    IN [i \in 1..(Len(s) + 1) |->
           IF i <= p THEN s[i]
           ELSE IF i = p + 1 THEN v
           ELSE s[i - 1]]

InsertAt(s, pos, v) ==
    [i \in 1..(Len(s) + 1) |->
        IF i <= pos THEN s[i]
        ELSE IF i = pos + 1 THEN v
        ELSE s[i - 1]]

\* vector::erase(begin() + pos): elements after pos move down by one
EraseAt_off(s, pos) ==
    [i \in 1..(Len(s) - 1) |-> IF i <= pos + 1 THEN s[i] ELSE s[i + 1]]

EraseAt(s, pos) ==
    [i \in 1..(Len(s) - 1) |-> IF i <= pos THEN s[i] ELSE s[i + 1]]

\* vector::pop_back(): the last element is destroyed
PopBack_first(s) == IF s = <<>> THEN s ELSE Tail(s)

PopBack(s) == IF s = <<>> THEN s ELSE SubSeq(s, 1, Len(s) - 1)

\* Capacity after making room for n more elements: no reallocation while
\* the elements fit, otherwise a new buffer of an implementation-chosen
\* size between what is needed and geometric growth.
GrowChoices_under(cap, size, n) ==
    IF size + n <= cap THEN {cap}
    ELSE (size + n - 1)..Max2(size + n, 2 * cap)

GrowChoices(cap, size, n) ==
    IF size + n <= cap THEN {cap}
    ELSE (size + n)..Max2(size + n, 2 * cap)

\* Capacities a default-constructed vector can have after k push_back calls
RECURSIVE CapsAfterPushes(_)
CapsAfterPushes(k) ==
    IF k = 0 THEN {0}
    ELSE UNION {GrowChoices(c, k - 1, 1) : c \in CapsAfterPushes(k - 1)}

\* std::max_element / std::min_element: first extremal element
RECURSIVE MaxElementIdx(_, _)
MaxElementIdx(s, k) ==
    IF k = 1 THEN 1
    ELSE LET b == MaxElementIdx(s, k - 1)
         IN IF s[b] < s[k] THEN k ELSE b

RECURSIVE MinElementIdx(_, _)
MinElementIdx(s, k) ==
    IF k = 1 THEN 1
    ELSE LET b == MinElementIdx(s, k - 1)
         IN IF s[k] < s[b] THEN k ELSE b

\* ------------------------------------------------------------------
\* Predicates and arguments
\* ------------------------------------------------------------------
Preds == [Values -> BOOLEAN]
PredNone == [v \in Values |-> FALSE]

\* transform functions T -> T
Funcs == {[v \in Values |-> (v + 1) % (MaxVal + 1)],
          [v \in Values |-> MaxVal - v],
          [v \in Values |-> 0]}
FuncNone == [v \in Values |-> v]

NoArg == [pos |-> 0, val |-> 0, flag |-> FALSE, pred |-> PredNone,
          val2 |-> 0, seq |-> <<>>, func |-> FuncNone]
PosArg(p) == [NoArg EXCEPT !.pos = p]
ValArg(v) == [NoArg EXCEPT !.val = v]
PosValArg(p, v) == [NoArg EXCEPT !.pos = p, !.val = v]
FlagArg(b) == [NoArg EXCEPT !.flag = b]
PredArg(f) == [NoArg EXCEPT !.pred = f]
\* a value argument compared with operator==: [&](const T &elem) { return elem == value; }
EqPred(value) == [v \in Values |-> v = value]
ValuePredArg(value) == [NoArg EXCEPT !.val = value, !.pred = EqPred(value)]
TwoValArg(v, w) == [NoArg EXCEPT !.val = v, !.val2 = w]
SeqArg(q) == [NoArg EXCEPT !.seq = q]
FuncArg(f) == [NoArg EXCEPT !.func = f]

StoreOf(d, c) == [data |-> d, cap |-> c]

\* ------------------------------------------------------------------
\* Initial state: a store after construction
\* ------------------------------------------------------------------
\* Store(), Store(size_t) and Store(initializer_list<T>) all leave a
\* vector whose capacity equals its size.
\* Besides Store<int> over Values ("full", "mini") the full header is
\* instantiated as Store<std::string> ("text") and as Store<int> over the
\* whole range of int ("wide"); the last two are only converted.
TextAlphabet == {"1", "2", "a", "-", " "}
Strings == UNION {[1..k -> TextAlphabet] : k \in 0..MaxStrLen}
INT_MAX == 2 ^ (IntBits - 1) - 1
INT_MIN == 0 - 2 ^ (IntBits - 1)
ShortSeqs(S) == {<<>>} \cup {<<a>> : a \in S} \cup {<<a, b>> : a, b \in S}

InitialData(v) ==
    IF v = "text" THEN ShortSeqs(Strings)
    ELSE IF v = "wide" THEN ShortSeqs(INT_MIN..INT_MAX)
    ELSE SeqsUpTo(MaxLen)

Init ==
    /\ variant \in {"full", "mini", "text", "wide"}
    /\ \E d \in InitialData(variant) :
          /\ m_data = (IF variant # "mini" THEN d ELSE <<>>)
          /\ mini_data = (IF variant = "mini" THEN d ELSE <<>>)
    /\ m_cap = Len(m_data)
    /\ mini_size = Len(mini_data)
    /\ mini_cap = Len(mini_data)
    /\ mini_ub = "none"
    /\ op = "construct"
    /\ arg = NoArg
    /\ err = "none"
    /\ ret = <<>>
    /\ result = <<>>
    /\ other = <<>>
    /\ old_data = <<>>
    /\ old_cap = 0
    /\ reserved = NoReserve

\* ------------------------------------------------------------------
\* Bookkeeping of a call on the full-variant store
\* ------------------------------------------------------------------
\* A member function is called once the statement holding the previous call
\* has ended; until then only a chained call on the value it returned can
\* follow.
Ready == op = "idle"

\* reserved: the n of the latest reserve(n) as long as only push_back calls
\* have followed it
ReservedAfter(o, a) ==
    IF o = "reserve" THEN a.pos
    ELSE IF o = "push_back" THEN reserved
    ELSE NoReserve

Record(o, a, e, r, res, oth) ==
    /\ op' = o
    /\ arg' = a
    /\ err' = e
    /\ ret' = r
    /\ result' = res
    /\ other' = oth
    /\ old_data' = m_data
    /\ old_cap' = m_cap
    /\ reserved' = ReservedAfter(o, a)
    /\ UNCHANGED <<variant, mini_vars>>

CallWith(o, a, e, r, res, oth) ==
    /\ variant = "full"
    /\ Ready
    /\ Record(o, a, e, r, res, oth)

Call(o, a, e, r, res) == CallWith(o, a, e, r, res, <<>>)

\* what every member function call of the full variant starts from
FullReady == variant = "full" /\ Ready

\* Errors::throw_out_of_range / throw_runtime_error: the call is left
\* before any statement after the check runs.
throw_out_of_range_as_runtime(o, a) ==
    /\ Call(o, a, "RuntimeError", <<>>, <<>>)
    /\ UNCHANGED full_vars

throw_out_of_range(o, a) ==
    /\ Call(o, a, "OutOfRange", <<>>, <<>>)
    /\ UNCHANGED full_vars

throw_invalid_argument(o, a) ==
    /\ Record(o, a, "InvalidArgument", <<>>, <<>>, <<>>)
    /\ UNCHANGED full_vars

throw_runtime_error(o, a) ==
    /\ Record(o, a, "RuntimeError", <<>>, <<>>, <<>>)
    /\ UNCHANGED full_vars

\* A const member function that returns a value
Query(o, a, r) ==
    /\ Call(o, a, "none", r, <<>>)
    /\ UNCHANGED full_vars

\* A void member function that leaves data d and capacity c
Mutate(o, a, d, c) ==
    /\ Call(o, a, "none", <<>>, <<>>)
    /\ m_data' = d
    /\ m_cap' = c

\* ------------------------------------------------------------------
\* Full variant: element access
\* ------------------------------------------------------------------
at_fails_off(d, pos) == pos + 1 >= Len(d)

at_fails(d, pos) == pos >= Len(d)

at ==
    /\ FullReady
    /\ \E pos \in Positions :
           IF at_fails(m_data, pos)
           THEN throw_out_of_range("at", PosArg(pos))
           ELSE Query("at", PosArg(pos), <<m_data[pos + 1]>>)

front ==
    /\ FullReady
    /\ IF m_data = <<>>
       THEN throw_out_of_range("front", NoArg)
       ELSE Query("front", NoArg, <<Head(m_data)>>)

mid_index_low(d) == (Len(d) - 1) \div 2

mid_index(d) == Len(d) \div 2

mid ==
    /\ FullReady
    /\ IF m_data = <<>>
       THEN throw_out_of_range("mid", NoArg)
       ELSE Query("mid", NoArg, <<m_data[mid_index(m_data) + 1]>>)

back ==
    /\ FullReady
    /\ IF m_data = <<>>
       THEN throw_out_of_range("back", NoArg)
       ELSE Query("back", NoArg, <<m_data[Len(m_data)]>>)

max ==
    /\ FullReady
    /\ IF m_data = <<>>
       THEN throw_out_of_range("max", NoArg)
       ELSE Query("max", NoArg, <<m_data[MaxElementIdx(m_data, Len(m_data))]>>)

min ==
    /\ FullReady
    /\ IF m_data = <<>>
       THEN throw_out_of_range("min", NoArg)
       ELSE Query("min", NoArg, <<m_data[MinElementIdx(m_data, Len(m_data))]>>)

\* ------------------------------------------------------------------
\* Full variant: capacity and basic operations
\* ------------------------------------------------------------------
reserve ==
    /\ FullReady
    /\ \E n \in 0..(MaxLen + 1) :
           Mutate("reserve", PosArg(n), m_data, Max2(m_cap, n))

resize ==
    /\ FullReady
    /\ \E n \in 0..MaxLen :
           IF n <= Len(m_data)
           THEN Mutate("resize", PosArg(n), SubSeq(m_data, 1, n), m_cap)
           ELSE \E c \in GrowChoices(m_cap, Len(m_data), n - Len(m_data)) :
                   Mutate("resize", PosArg(n),
                          m_data \o [i \in 1..(n - Len(m_data)) |-> 0], c)

clear ==
    /\ FullReady
    /\ Mutate("clear", NoArg, <<>>, m_cap)

\* a non-binding request: the capacity drops to the size or stays
shrink_to_fit ==
    /\ FullReady
    /\ \E c \in {Len(m_data), m_cap} :
           Mutate("shrink_to_fit", NoArg, m_data, c)

pop_front ==
    /\ FullReady
    /\ IF m_data = <<>>
       THEN throw_out_of_range("pop_front", NoArg)
       ELSE Mutate("pop_front", NoArg, EraseAt(m_data, 0), m_cap)

pop_back ==
    /\ FullReady
    /\ IF m_data = <<>>
       THEN throw_out_of_range("pop_back", NoArg)
       ELSE Mutate("pop_back", NoArg, PopBack(m_data), m_cap)

remove_at ==
    /\ FullReady
    /\ \E pos \in Positions :
           IF pos >= Len(m_data)
           THEN throw_out_of_range("remove_at", PosArg(pos))
           ELSE Mutate("remove_at", PosArg(pos), EraseAt(m_data, pos), m_cap)

insert ==
    /\ FullReady
    /\ \E pos \in Positions, value \in Values :
           IF pos > Len(m_data)
           THEN throw_out_of_range("insert", PosValArg(pos, value))
           ELSE /\ Len(m_data) < MaxLen
                /\ \E c \in GrowChoices(m_cap, Len(m_data), 1) :
                      Mutate("insert", PosValArg(pos, value),
                             InsertAt(m_data, pos, value), c)

push_front ==
    /\ FullReady
    /\ \E value \in Values :
           /\ Len(m_data) < MaxLen
           /\ \E c \in GrowChoices(m_cap, Len(m_data), 1) :
                 Mutate("push_front", ValArg(value), InsertAt(m_data, 0, value), c)

\* m_data.push_back(value)
push_back_data(d, value) == Append(d, value)

push_back ==
    /\ FullReady
    /\ \E value \in Values :
           /\ Len(m_data) < MaxLen
           /\ \E c \in GrowChoices(m_cap, Len(m_data), 1) :
                 Mutate("push_back", ValArg(value), push_back_data(m_data, value), c)

\* swap(Store<T> &other): the two vectors exchange their buffers; `other`
\* records the argument as the call leaves it.
OtherStores == {StoreOf(d, Len(d)) : d \in SeqsUpTo(2)}

swap ==
    /\ FullReady
    /\ \E o \in OtherStores :
           /\ CallWith("swap", NoArg, "none", <<>>, <<>>, <<StoreOf(m_data, m_cap)>>)
           /\ m_data' = o.data
           /\ m_cap' = o.cap

\* ------------------------------------------------------------------
\* Full variant: filter
\* ------------------------------------------------------------------
\* the range-for loop of filter: result.push_back(elem) where pred(elem)
RECURSIVE filter_loop_drop(_, _, _)
filter_loop_drop(d, pred, k) ==
    IF k = 0 THEN <<>>
    ELSE LET r == filter_loop_drop(d, pred, k - 1)
         IN IF pred[d[k]] /\ (r = <<>> \/ r[Len(r)] # d[k])
            THEN Append(r, d[k]) ELSE r

RECURSIVE filter_loop(_, _, _)
filter_loop(d, pred, k) ==
    IF k = 0 THEN <<>>
    ELSE LET r == filter_loop(d, pred, k - 1)
         IN IF pred[d[k]] THEN Append(r, d[k]) ELSE r

filter ==
    \E pred \in Preds :
        /\ variant = "full"
        /\ Ready
        /\ LET r == filter_loop(m_data, pred, Len(m_data))
           IN \E c \in CapsAfterPushes(Len(r)) :
              /\ Call("filter", PredArg(pred), "none", <<>>, <<StoreOf(r, c)>>)
              /\ UNCHANGED full_vars

\* ------------------------------------------------------------------
\* Full variant: type conversion
\* ------------------------------------------------------------------
\* A std::string is a sequence of characters, an int is a number between
\* INT_MIN and INT_MAX.
Digits == <<"0", "1", "2", "3", "4", "5", "6", "7", "8", "9">>
IsDigit(c) == \E k \in 1..10 : Digits[k] = c
DigitVal(c) == (CHOOSE k \in 1..10 : Digits[k] = c) - 1

\* std::to_string(int): the decimal digits, a leading '-' when negative
RECURSIVE NatToString(_)
NatToString(n) ==
    IF n < 10 THEN <<Digits[n + 1]>>
    ELSE Append(NatToString(n \div 10), Digits[(n % 10) + 1])

std_to_string_unsigned(n) == NatToString(IF n < 0 THEN 0 - n ELSE n)

std_to_string(n) ==
    IF n < 0 THEN <<"-">> \o NatToString(0 - n) ELSE NatToString(n)

\* std::stoi / std::stod: leading white space is skipped, then an optional
\* sign, then the longest run of digits; what follows is ignored.
RECURSIVE SkipSpace(_)
SkipSpace(s) ==
    IF s # <<>> /\ s[1] = " " THEN SkipSpace(Tail(s)) ELSE s

HasSign(s) == s # <<>> /\ s[1] \in {"-", "+"}
IsNegative(s) == s # <<>> /\ s[1] = "-"
AfterSign(s) == IF HasSign(s) THEN Tail(s) ELSE s

RECURSIVE DigitRun(_)
DigitRun(s) ==
    IF s # <<>> /\ IsDigit(s[1]) THEN <<s[1]>> \o DigitRun(Tail(s)) ELSE <<>>

RECURSIVE DigitsValue(_)
DigitsValue(ds) ==
    IF ds = <<>> THEN 0
    ELSE 10 * DigitsValue(SubSeq(ds, 1, Len(ds) - 1)) + DigitVal(ds[Len(ds)])

ParsedDigits(s) == DigitRun(AfterSign(SkipSpace(s)))
ParsedValue(s) ==
    IF IsNegative(SkipSpace(s)) THEN 0 - DigitsValue(ParsedDigits(s))
    ELSE DigitsValue(ParsedDigits(s))

\* std::stoi throws std::invalid_argument when there is no digit to convert
\* and std::out_of_range when the value does not fit an int
stoi_outcome(s) ==
    IF ParsedDigits(s) = <<>> THEN "invalid_argument"
    ELSE IF ParsedValue(s) < INT_MIN \/ ParsedValue(s) > INT_MAX
         THEN "out_of_range"
         ELSE "ok"

\* std::stod over the characters used here (no '.', exponent, "inf", "nan"
\* or hexadecimal prefix can be spelled); a double holds every such value
stod_outcome(s) ==
    IF ParsedDigits(s) = <<>> THEN "invalid_argument" ELSE "ok"

\* try { result.push_back(std::stoi(val)); } catch (...) { result.push_back(0); }
\* for a string element, static_cast<int>(val) for an arithmetic one
to_int_elem(val, text) ==
    IF text
    THEN (IF stoi_outcome(val) = "ok" THEN ParsedValue(val) ELSE 0)
    ELSE val

to_double_elem(val, text) ==
    IF text
    THEN (IF stod_outcome(val) = "ok" THEN ParsedValue(val) ELSE 0)
    ELSE val

\* val[0], or '\0' for an empty string; static_cast<char>(val) keeps the
\* low byte of an arithmetic value
NUL == "NUL"
to_char_elem(val, text) ==
    IF text THEN (IF val # <<>> THEN val[1] ELSE NUL) ELSE val % 256

\* std::to_string(val) for an arithmetic element, val itself for a string
to_string_elem(val, text) ==
    IF text THEN val ELSE std_to_string(val)

convert_elem(target, val, text) ==
    IF target = "to_int" THEN to_int_elem(val, text)
    ELSE IF target = "to_double" THEN to_double_elem(val, text)
    ELSE IF target = "to_char" THEN to_char_elem(val, text)
    ELSE to_string_elem(val, text)

\* for (const auto &val : m_data) result.push_back(<converted val>);
RECURSIVE convert_loop_skip(_, _, _, _)
convert_loop_skip(target, d, k, text) ==
    IF k = 0 THEN <<>>
    ELSE IF text /\ target = "to_int" /\ stoi_outcome(d[k]) # "ok"
         THEN convert_loop_skip(target, d, k - 1, text)
         ELSE Append(convert_loop_skip(target, d, k - 1, text),
                     convert_elem(target, d[k], text))

RECURSIVE convert_loop(_, _, _, _)
convert_loop(target, d, k, text) ==
    IF k = 0 THEN <<>>
    ELSE Append(convert_loop(target, d, k - 1, text),
                convert_elem(target, d[k], text))

ConvVariants == {"full", "text", "wide"}
ElemIsText == variant = "text"

\* the guard every conversion starts with
conversion_guard_never(d) == FALSE

conversion_guard(d) == d = <<>>

Convert(target) ==
    /\ variant \in ConvVariants
    /\ Ready
    /\ IF conversion_guard(m_data)
       THEN throw_runtime_error(target, NoArg)
       ELSE \E c \in CapsAfterPushes(Len(m_data)) :
               /\ Record(target, NoArg, "none", <<>>,
                         <<StoreOf(convert_loop(target, m_data, Len(m_data),
                                                ElemIsText), c)>>, <<>>)
               /\ UNCHANGED full_vars

to_int == Convert("to_int")

to_double == Convert("to_double")

to_char == Convert("to_char")

to_string == Convert("to_string")

\* s.to_string().to_int(): to_int of the Store<string> that to_string
\* returned
to_string_to_int ==
    /\ variant \in ConvVariants
    /\ op = "to_string"
    /\ Len(result) = 1
    /\ LET src == result[1].data
       IN IF conversion_guard(src)
          THEN throw_runtime_error("to_string.to_int", NoArg)
          ELSE \E c \in CapsAfterPushes(Len(src)) :
                  /\ Record("to_string.to_int", NoArg, "none", <<>>,
                            <<StoreOf(convert_loop("to_int", src, Len(src), TRUE),
                                      c)>>, <<>>)
                  /\ UNCHANGED full_vars

\* ------------------------------------------------------------------
\* Full variant: search and checks
\* ------------------------------------------------------------------
\* std::find(begin, end, value) != end
RECURSIVE std_find(_, _, _)
std_find(d, value, k) ==
    IF k > Len(d) THEN Len(d) + 1
    ELSE IF d[k] = value THEN k
    ELSE std_find(d, value, k + 1)

contains ==
    /\ FullReady
    /\ \E value \in Values :
           Query("contains", ValArg(value),
                 <<std_find(m_data, value, 1) # Len(m_data) + 1>>)

\* std::any_of / std::all_of / std::none_of over the first k elements
RECURSIVE std_any_of(_, _, _)
std_any_of(d, pred, k) ==
    IF k = 0 THEN FALSE ELSE std_any_of(d, pred, k - 1) \/ pred[d[k]]

RECURSIVE std_all_of(_, _, _)
std_all_of(d, pred, k) ==
    IF k = 0 THEN TRUE ELSE std_all_of(d, pred, k - 1) /\ pred[d[k]]

RECURSIVE std_none_of_strict(_, _, _)
std_none_of_strict(d, pred, k) ==
    IF k = 0 THEN FALSE
    ELSE (k = 1 \/ std_none_of_strict(d, pred, k - 1)) /\ ~pred[d[k]]

RECURSIVE std_none_of(_, _, _)
std_none_of(d, pred, k) ==
    IF k = 0 THEN TRUE ELSE std_none_of(d, pred, k - 1) /\ ~pred[d[k]]

any_of ==
    /\ FullReady
    /\ \E pred \in Preds :
           Query("any_of", PredArg(pred),
                 <<std_any_of(m_data, pred, Len(m_data))>>)

any_of_value ==
    /\ FullReady
    /\ \E value \in Values :
           Query("any_of(value)", ValuePredArg(value),
                 <<std_any_of(m_data, EqPred(value), Len(m_data))>>)

all_of ==
    /\ FullReady
    /\ \E pred \in Preds :
           Query("all_of", PredArg(pred),
                 <<std_all_of(m_data, pred, Len(m_data))>>)

all_of_value ==
    /\ FullReady
    /\ \E value \in Values :
           Query("all_of(value)", ValuePredArg(value),
                 <<std_all_of(m_data, EqPred(value), Len(m_data))>>)

none_of ==
    /\ FullReady
    /\ \E pred \in Preds :
           Query("none_of", PredArg(pred),
                 <<std_none_of(m_data, pred, Len(m_data))>>)

none_of_value ==
    /\ FullReady
    /\ \E value \in Values :
           Query("none_of(value)", ValuePredArg(value),
                 <<std_none_of(m_data, EqPred(value), Len(m_data))>>)

\* for (size_t i = 0; i < m_data.size(); ++i)
\*     if (<match>(m_data[i])) positions.push_back(i);
RECURSIVE find_all_loop_from1(_, _, _)
find_all_loop_from1(d, pred, k) ==
    IF k = 0 THEN <<>>
    ELSE LET r == find_all_loop_from1(d, pred, k - 1)
         IN IF pred[d[k]] THEN Append(r, k) ELSE r

RECURSIVE find_all_loop(_, _, _)
find_all_loop(d, pred, k) ==
    IF k = 0 THEN <<>>
    ELSE LET r == find_all_loop(d, pred, k - 1)
         IN IF pred[d[k]] THEN Append(r, k - 1) ELSE r

find_all ==
    /\ FullReady
    /\ \E value \in Values :
           Query("find_all", ValuePredArg(value),
                 find_all_loop(m_data, EqPred(value), Len(m_data)))

find_all_if ==
    /\ FullReady
    /\ \E pred \in Preds :
           Query("find_all_if", PredArg(pred),
                 find_all_loop(m_data, pred, Len(m_data)))

\* print(bool new_line): the elements as operator<< writes them, a space
\* between two elements, '\n' at the end when asked for
RECURSIVE print_loop(_, _)
print_loop(d, k) ==
    IF k = 0 THEN <<>>
    ELSE print_loop(d, k - 1) \o std_to_string(d[k])
             \o (IF k < Len(d) THEN <<" ">> ELSE <<>>)

print ==
    /\ FullReady
    /\ \E new_line \in BOOLEAN :
           Query("print", FlagArg(new_line),
                 print_loop(m_data, Len(m_data))
                     \o (IF new_line THEN <<"\n">> ELSE <<>>))

\* ------------------------------------------------------------------
\* Sorting and deduplication (shared by both headers)
\* ------------------------------------------------------------------
\* the comparator: operator< for sort(true), std::greater<T> for sort(false)
Comp_same(a, b, ascending) == a < b

Comp(a, b, ascending) == IF ascending THEN a < b ELSE a > b

\* std::sort on a short range is an insertion sort: each element moves
\* down past the elements it compares before
RECURSIVE LinearInsert(_, _, _)
LinearInsert(s, x, ascending) ==
    IF s = <<>> THEN <<x>>
    ELSE IF Comp(x, s[Len(s)], ascending)
         THEN Append(LinearInsert(SubSeq(s, 1, Len(s) - 1), x, ascending),
                     s[Len(s)])
         ELSE Append(s, x)

RECURSIVE InsertionSort(_, _, _)
InsertionSort(s, k, ascending) ==
    IF k = 0 THEN <<>>
    ELSE LinearInsert(InsertionSort(s, k - 1, ascending), s[k], ascending)

std_sort(s, ascending) == InsertionSort(s, Len(s), ascending)

\* std::unique followed by erase(it, end()): of every run of equal
\* adjacent elements the first one stays
RECURSIVE std_unique_loop(_, _)
std_unique_loop(s, k) ==
    IF k = 0 THEN <<>>
    ELSE LET r == std_unique_loop(s, k - 1)
         IN IF r # <<>> /\ r[Len(r)] = s[k] THEN r ELSE Append(r, s[k])

std_unique(s) == std_unique_loop(s, Len(s))

sort ==
    /\ FullReady
    /\ \E ascending \in BOOLEAN :
           Mutate("sort", FlagArg(ascending), std_sort(m_data, ascending), m_cap)

\* unique(bool auto_sort = true)
unique_data_nosort(d, auto_sort) == std_unique(d)

unique_data(d, auto_sort) ==
    std_unique(IF auto_sort THEN std_sort(d, TRUE) ELSE d)

unique ==
    /\ FullReady
    /\ \E auto_sort \in BOOLEAN :
           Mutate("unique", FlagArg(auto_sort), unique_data(m_data, auto_sort),
                  m_cap)

\* sort(Compare comp): std::sort with the caller's comparator
Comparators == {"less", "greater"}

sort_comp ==
    /\ FullReady
    /\ \E comp \in Comparators :
           Mutate("sort(comp)", FlagArg(comp = "less"),
                  std_sort(m_data, comp = "less"), m_cap)

\* ------------------------------------------------------------------
\* Full variant: in-place changes
\* ------------------------------------------------------------------
replace_at_late_check ==
    /\ FullReady
    /\ \E pos \in Positions, value \in Values :
           IF pos >= Len(m_data)
           THEN /\ Call("replace_at", PosValArg(pos, value), "OutOfRange",
                        <<>>, <<>>)
                /\ m_data' = (IF m_data = <<>> THEN m_data
                              ELSE [m_data EXCEPT ![Len(m_data)] = value])
                /\ m_cap' = m_cap
           ELSE Mutate("replace_at", PosValArg(pos, value),
                       [m_data EXCEPT ![pos + 1] = value], m_cap)

replace_at ==
    /\ FullReady
    /\ \E pos \in Positions, value \in Values :
           IF pos >= Len(m_data)
           THEN throw_out_of_range("replace_at", PosValArg(pos, value))
           ELSE Mutate("replace_at", PosValArg(pos, value),
                       [m_data EXCEPT ![pos + 1] = value], m_cap)

\* std::replace(begin, end, old_value, new_value)
std_replace(d, old_value, new_value) ==
    [i \in 1..Len(d) |-> IF d[i] = old_value THEN new_value ELSE d[i]]

replace_all ==
    /\ FullReady
    /\ \E old_value \in Values, new_value \in Values :
           Mutate("replace_all", TwoValArg(old_value, new_value),
                  std_replace(m_data, old_value, new_value), m_cap)

std_fill_one(d, value) == <<value>>

\* std::fill(begin, end, value)
std_fill(d, value) == [i \in 1..Len(d) |-> value]

fill ==
    /\ FullReady
    /\ \E value \in Values :
           Mutate("fill", ValArg(value), std_fill(m_data, value), m_cap)

\* std::reverse(begin, end)
std_reverse(d) == [i \in 1..Len(d) |-> d[Len(d) + 1 - i]]

reverse ==
    /\ FullReady
    /\ Mutate("reverse", NoArg, std_reverse(m_data), m_cap)

\* std::transform(begin, end, begin, func)
std_transform(d, func) == [i \in 1..Len(d) |-> func[d[i]]]

transform ==
    /\ FullReady
    /\ \E func \in Funcs :
           Mutate("transform", FuncArg(func), std_transform(m_data, func), m_cap)

\* ------------------------------------------------------------------
\* Full variant: adding elements
\* ------------------------------------------------------------------
\* vector::insert(begin() + pos, first, last)
InsertRangeAt_reversed(s, pos, q) ==
    [i \in 1..(Len(s) + Len(q)) |->
        IF i <= pos THEN s[i]
        ELSE IF i <= pos + Len(q) THEN q[Len(q) + 1 - (i - pos)]
        ELSE s[i - Len(q)]]

InsertRangeAt(s, pos, q) ==
    [i \in 1..(Len(s) + Len(q)) |->
        IF i <= pos THEN s[i]
        ELSE IF i <= pos + Len(q) THEN q[i - pos]
        ELSE s[i - Len(q)]]

\* the external sequences and literal lists handed to push_front/push_back
ArgSeqs == {<<>>} \cup [1..2 -> Values]

AddRange(o, pos, q) ==
    /\ Len(m_data) + Len(q) <= MaxLen
    /\ \E c \in GrowChoices(m_cap, Len(m_data), Len(q)) :
          Mutate(o, SeqArg(q), InsertRangeAt(m_data, pos, q), c)

push_front_container ==
    /\ FullReady
    /\ \E q \in ArgSeqs : variant = "full" /\ AddRange("push_front(container)", 0, q)

push_front_list ==
    /\ FullReady
    /\ \E q \in ArgSeqs : variant = "full" /\ AddRange("push_front(list)", 0, q)

push_back_container ==
    /\ FullReady
    /\ \E q \in ArgSeqs :
           variant = "full" /\ AddRange("push_back(container)", Len(m_data), q)

push_back_list ==
    /\ FullReady
    /\ \E q \in ArgSeqs :
           variant = "full" /\ AddRange("push_back(list)", Len(m_data), q)

\* emplace_back / emplace_front construct the element in place
emplace_back ==
    /\ FullReady
    /\ \E value \in Values :
           /\ Len(m_data) < MaxLen
           /\ \E c \in GrowChoices(m_cap, Len(m_data), 1) :
                 Mutate("emplace_back", ValArg(value), Append(m_data, value), c)

emplace_front ==
    /\ FullReady
    /\ \E value \in Values :
           /\ Len(m_data) < MaxLen
           /\ \E c \in GrowChoices(m_cap, Len(m_data), 1) :
                 Mutate("emplace_front", ValArg(value),
                        InsertAt(m_data, 0, value), c)

plus_assign_replaces ==
    /\ FullReady
    /\ \E o \in OtherStores :
           /\ CallWith("operator+=", SeqArg(o.data), "none", <<>>, <<>>, <<o>>)
           /\ m_data' = o.data
           /\ m_cap' = o.cap

\* operator+=(Store<T> &&other): other's elements are moved to the end;
\* other keeps its (moved-from) elements
plus_assign ==
    /\ FullReady
    /\ \E o \in OtherStores :
           /\ variant = "full"
           /\ Len(m_data) + Len(o.data) <= MaxLen
           /\ \E c \in GrowChoices(m_cap, Len(m_data), Len(o.data)) :
                 /\ CallWith("operator+=", SeqArg(o.data), "none", <<>>, <<>>, <<o>>)
                 /\ m_data' = InsertRangeAt(m_data, Len(m_data), o.data)
                 /\ m_cap' = c

\* ------------------------------------------------------------------
\* Full variant: a call on the container that filter returned
\* ------------------------------------------------------------------
\* store.filter(p).sort(comp), .transform(func), .unique(): the member is
\* called on the temporary Store; sort, transform and unique return void,
\* so the expression has no value.  `other` records the temporary as the
\* call leaves it.
ChainOnFilter(o, a, d) ==
    /\ variant = "full"
    /\ op = "filter"
    /\ Len(result) = 1
    /\ Record(o, a, "none", <<>>, <<>>, <<StoreOf(d, result[1].cap)>>)
    /\ UNCHANGED full_vars

filter_sort ==
    \E comp \in Comparators :
        /\ op = "filter" /\ Len(result) = 1
        /\ ChainOnFilter("filter.sort", FlagArg(comp = "less"),
                         std_sort(result[1].data, comp = "less"))

filter_transform ==
    \E func \in Funcs :
        /\ op = "filter" /\ Len(result) = 1
        /\ ChainOnFilter("filter.transform", FuncArg(func),
                         std_transform(result[1].data, func))

filter_unique ==
    /\ op = "filter" /\ Len(result) = 1
    /\ ChainOnFilter("filter.unique", FlagArg(TRUE),
                     unique_data(result[1].data, TRUE))

\* ------------------------------------------------------------------
\* Minimal variant
\* ------------------------------------------------------------------
\* mini_size is what size() returns, the distance between the vector's
\* begin and end pointers as a size_t; mini_ub tells whether a call has
\* run into undefined behaviour and with which outcome.
MiniReady == variant = "mini" /\ Ready /\ mini_ub = "none"

MiniCall(o, a) ==
    /\ variant = "mini"
    /\ Ready
    /\ mini_ub = "none"
    /\ op' = o
    /\ arg' = a
    /\ err' = "none"
    /\ ret' = <<>>
    /\ result' = <<>>
    /\ other' = <<>>
    /\ old_data' = mini_data
    /\ old_cap' = mini_cap
    /\ reserved' = ReservedAfter(o, a)
    /\ UNCHANGED <<variant, full_vars>>

MiniMutate(o, a, d, c) ==
    /\ MiniCall(o, a)
    /\ mini_data' = d
    /\ mini_size' = Len(d)
    /\ mini_cap' = c
    /\ mini_ub' = "none"

mini_reserve ==
    /\ MiniReady
    /\ \E n \in 0..(MaxLen + 1) :
           MiniMutate("reserve", PosArg(n), mini_data, Max2(mini_cap, n))

mini_resize ==
    /\ MiniReady
    /\ \E n \in 0..MaxLen :
           IF n <= Len(mini_data)
           THEN MiniMutate("resize", PosArg(n), SubSeq(mini_data, 1, n), mini_cap)
           ELSE \E c \in GrowChoices(mini_cap, Len(mini_data), n - Len(mini_data)) :
                   MiniMutate("resize", PosArg(n),
                              mini_data \o [i \in 1..(n - Len(mini_data)) |-> 0], c)

mini_shrink_to_fit ==
    /\ MiniReady
    /\ \E c \in {Len(mini_data), mini_cap} :
           MiniMutate("shrink_to_fit", NoArg, mini_data, c)

mini_clear ==
    /\ MiniReady
    /\ MiniMutate("clear", NoArg, <<>>, mini_cap)

mini_push_front ==
    /\ MiniReady
    /\ \E value \in Values :
           /\ Len(mini_data) < MaxLen
           /\ \E c \in GrowChoices(mini_cap, Len(mini_data), 1) :
                 MiniMutate("push_front", ValArg(value),
                            InsertAt(mini_data, 0, value), c)

mini_pop_front_data_kept(d) == d

\* if (!m_data.empty()) m_data.erase(m_data.begin());
mini_pop_front_data(d) == IF d # <<>> THEN EraseAt(d, 0) ELSE d

mini_pop_front ==
    /\ MiniReady
    /\ MiniMutate("pop_front", NoArg, mini_pop_front_data(mini_data), mini_cap)

mini_push_back ==
    /\ MiniReady
    /\ \E value \in Values :
           /\ Len(mini_data) < MaxLen
           /\ \E c \in GrowChoices(mini_cap, Len(mini_data), 1) :
                 MiniMutate("push_back", ValArg(value), Append(mini_data, value), c)

\* m_data.pop_back() with no emptiness check.  On an empty vector this is
\* undefined behaviour: an unchecked library build moves the end pointer
\* below the begin pointer, so size() wraps around; a checked build
\* aborts the program.
mini_pop_back_outcomes(d) ==
    IF d = <<>> THEN {"wrapped", "aborted"} ELSE {"none"}

mini_pop_back ==
    /\ MiniReady
    /\ \E outcome \in mini_pop_back_outcomes(mini_data) :
           /\ MiniCall("pop_back", NoArg)
           /\ mini_data' = PopBack(mini_data)
           /\ mini_size' = (IF outcome = "aborted" THEN mini_size
                            ELSE (mini_size - 1) % SizeModulus)
           /\ mini_cap' = mini_cap
           /\ mini_ub' = outcome

mini_sort ==
    /\ MiniReady
    /\ \E ascending \in BOOLEAN :
           MiniMutate("sort", FlagArg(ascending), std_sort(mini_data, ascending),
                      mini_cap)

\* unique(): no sort before std::unique
mini_unique_data(d) == std_unique(d)

mini_unique ==
    /\ MiniReady
    /\ MiniMutate("unique", NoArg, mini_unique_data(mini_data), mini_cap)

\* if (pos < m_data.size()) m_data.erase(m_data.begin() + pos);
mini_remove_at_data_clamped(d, pos) ==
    IF d # <<>> THEN EraseAt(d, IF pos < Len(d) THEN pos ELSE Len(d) - 1) ELSE d

mini_remove_at_data(d, pos) == IF pos < Len(d) THEN EraseAt(d, pos) ELSE d

mini_remove_at ==
    /\ MiniReady
    /\ \E pos \in Positions :
           MiniMutate("remove_at", PosArg(pos), mini_remove_at_data(mini_data, pos),
                      mini_cap)

\* if (pos <= m_data.size()) m_data.insert(m_data.begin() + pos, value);
mini_insert_data_clamped(d, pos, value) ==
    InsertAt(d, IF pos <= Len(d) THEN pos ELSE Len(d), value)

mini_insert_data(d, pos, value) ==
    IF pos <= Len(d) THEN InsertAt(d, pos, value) ELSE d

mini_insert ==
    /\ MiniReady
    /\ \E pos \in Positions, value \in Values :
           /\ Len(mini_insert_data(mini_data, pos, value)) <= MaxLen
           /\ LET d == mini_insert_data(mini_data, pos, value)
              IN \E c \in GrowChoices(mini_cap, Len(mini_data), Len(d) - Len(mini_data)) :
                    MiniMutate("insert", PosValArg(pos, value), d, c)

\* const member functions of the minimal variant
MiniQuery(o, a, r) ==
    /\ variant = "mini"
    /\ Ready
    /\ mini_ub = "none"
    /\ op' = o
    /\ arg' = a
    /\ err' = "none"
    /\ ret' = r
    /\ result' = <<>>
    /\ other' = <<>>
    /\ old_data' = mini_data
    /\ old_cap' = mini_cap
    /\ reserved' = ReservedAfter(o, a)
    /\ UNCHANGED <<variant, full_vars, mini_vars>>

mini_contains ==
    /\ MiniReady
    /\ \E value \in Values :
           MiniQuery("contains", ValArg(value),
                     <<std_find(mini_data, value, 1) # Len(mini_data) + 1>>)

mini_find_result_end(d, value) ==
    LET it == std_find(d, value, 1)
    IN IF it # Len(d) + 1 THEN it - 1 ELSE Len(d)

\* (it != m_data.end()) ? std::distance(m_data.begin(), it) : -1
mini_find_result(d, value) ==
    LET it == std_find(d, value, 1)
    IN IF it # Len(d) + 1 THEN it - 1 ELSE 0 - 1

mini_find ==
    /\ MiniReady
    /\ \E value \in Values :
           MiniQuery("find", ValArg(value), <<mini_find_result(mini_data, value)>>)

\* std::count(begin, end, value)
RECURSIVE std_count(_, _, _)
std_count(d, value, k) ==
    IF k = 0 THEN 0
    ELSE std_count(d, value, k - 1) + (IF d[k] = value THEN 1 ELSE 0)

mini_count ==
    /\ MiniReady
    /\ \E value \in Values :
           MiniQuery("count", ValArg(value),
                     <<std_count(mini_data, value, Len(mini_data))>>)

mini_fill ==
    /\ MiniReady
    /\ \E value \in Values :
           MiniMutate("fill", ValArg(value), std_fill(mini_data, value), mini_cap)

mini_reverse ==
    /\ MiniReady
    /\ MiniMutate("reverse", NoArg, std_reverse(mini_data), mini_cap)

mini_replace_all ==
    /\ MiniReady
    /\ \E old_value \in Values, new_value \in Values :
           MiniMutate("replace_all", TwoValArg(old_value, new_value),
                      std_replace(mini_data, old_value, new_value), mini_cap)

\* ------------------------------------------------------------------
\* End of the statement
\* ------------------------------------------------------------------
\* The statement that made the call ends: the value it returned and its
\* temporaries are gone, the store stays as the call left it.  A program
\* that ran into undefined behaviour is not followed further.
discard ==
    /\ ~Ready
    /\ mini_ub = "none"
    /\ op' = "idle"
    /\ arg' = NoArg
    /\ err' = "none"
    /\ ret' = <<>>
    /\ result' = <<>>
    /\ other' = <<>>
    /\ old_data' = <<>>
    /\ old_cap' = 0
    /\ UNCHANGED <<variant, full_vars, mini_vars, reserved>>

\* ------------------------------------------------------------------
\* Next-state relation
\* ------------------------------------------------------------------
FullNext ==
    \/ at
    \/ front
    \/ mid
    \/ back
    \/ max
    \/ min
    \/ reserve
    \/ resize
    \/ clear
    \/ shrink_to_fit
    \/ pop_front
    \/ pop_back
    \/ remove_at
    \/ insert
    \/ push_front
    \/ push_back
    \/ swap
    \/ filter
    \/ sort
    \/ unique
    \/ to_int
    \/ to_double
    \/ to_char
    \/ to_string
    \/ to_string_to_int
    \/ contains
    \/ any_of
    \/ any_of_value
    \/ all_of
    \/ all_of_value
    \/ none_of
    \/ none_of_value
    \/ find_all
    \/ find_all_if
    \/ print
    \/ sort_comp
    \/ replace_at
    \/ replace_all
    \/ fill
    \/ reverse
    \/ transform
    \/ push_front_container
    \/ push_front_list
    \/ push_back_container
    \/ push_back_list
    \/ emplace_back
    \/ emplace_front
    \/ plus_assign
    \/ filter_sort
    \/ filter_transform
    \/ filter_unique

MiniNext ==
    \/ mini_reserve
    \/ mini_resize
    \/ mini_shrink_to_fit
    \/ mini_clear
    \/ mini_push_front
    \/ mini_pop_front
    \/ mini_push_back
    \/ mini_pop_back
    \/ mini_sort
    \/ mini_unique
    \/ mini_remove_at
    \/ mini_insert
    \/ mini_contains
    \/ mini_find
    \/ mini_count
    \/ mini_fill
    \/ mini_reverse
    \/ mini_replace_all

Next == FullNext \/ MiniNext \/ discard

Spec == Init /\ [][Next]_vars

\* ------------------------------------------------------------------
\* The minimal and the full variant side by side: both stores start with
\* the same contents and every call is made on both with the same
\* arguments, provided the full variant's check lets it through.
\* ------------------------------------------------------------------
InitSide ==
    /\ variant = "both"
    /\ \E d \in SeqsUpTo(MaxLen) :
          /\ m_data = d
          /\ mini_data = d
    /\ m_cap = Len(m_data)
    /\ mini_size = Len(mini_data)
    /\ mini_cap = Len(mini_data)
    /\ mini_ub = "none"
    /\ op = "construct"
    /\ arg = NoArg
    /\ err = "none"
    /\ ret = <<>>
    /\ result = <<>>
    /\ other = <<>>
    /\ old_data = <<>>
    /\ old_cap = 0
    /\ reserved = NoReserve

\* the checks of the full variant that end in s_error.throw_out_of_range()
full_fails(o, a, d) ==
    IF o \in {"pop_front", "pop_back"} THEN d = <<>>
    ELSE IF o = "remove_at" THEN a.pos >= Len(d)
    ELSE IF o = "insert" THEN a.pos > Len(d)
    ELSE FALSE

\* m_data of the full variant after the call
full_step_data(o, a, d) ==
    IF o = "push_back" THEN push_back_data(d, a.val)
    ELSE IF o = "push_front" THEN InsertAt(d, 0, a.val)
    ELSE IF o = "pop_front" THEN EraseAt(d, 0)
    ELSE IF o = "pop_back" THEN PopBack(d)
    ELSE IF o = "insert" THEN InsertAt(d, a.pos, a.val)
    ELSE IF o = "remove_at" THEN EraseAt(d, a.pos)
    ELSE IF o = "fill" THEN std_fill(d, a.val)
    ELSE IF o = "reverse" THEN std_reverse(d)
    ELSE IF o = "sort" THEN std_sort(d, a.flag)
    ELSE IF o = "replace_all" THEN std_replace(d, a.val, a.val2)
    ELSE IF o = "clear" THEN <<>>
    ELSE d

\* m_data of the minimal variant after the same call
mini_step_data(o, a, d) ==
    IF o = "push_back" THEN Append(d, a.val)
    ELSE IF o = "push_front" THEN InsertAt(d, 0, a.val)
    ELSE IF o = "pop_front" THEN mini_pop_front_data(d)
    ELSE IF o = "pop_back" THEN PopBack(d)
    ELSE IF o = "insert" THEN mini_insert_data(d, a.pos, a.val)
    ELSE IF o = "remove_at" THEN mini_remove_at_data(d, a.pos)
    ELSE IF o = "fill" THEN std_fill(d, a.val)
    ELSE IF o = "reverse" THEN std_reverse(d)
    ELSE IF o = "sort" THEN std_sort(d, a.flag)
    ELSE IF o = "replace_all" THEN std_replace(d, a.val, a.val2)
    ELSE IF o = "clear" THEN <<>>
    ELSE d

SideStep(o, a) ==
    LET fd == full_step_data(o, a, m_data)
        md == mini_step_data(o, a, mini_data)
        \* elements added to each vector, and what the unguarded pop_back
        \* of the minimal variant can do to the store
        fn == IF Len(fd) > Len(m_data) THEN Len(fd) - Len(m_data) ELSE 0
        mn == IF Len(md) > Len(mini_data) THEN Len(md) - Len(mini_data) ELSE 0
        outcomes == IF o = "pop_back" THEN mini_pop_back_outcomes(mini_data)
                    ELSE {"none"}
    IN /\ variant = "both"
       /\ Ready
       /\ mini_ub = "none"
       /\ ~full_fails(o, a, m_data)
       /\ Len(fd) <= MaxLen
       /\ Len(md) <= MaxLen
       /\ m_data' = fd
       /\ \E c \in GrowChoices(m_cap, Len(m_data), fn) :
             m_cap' = c
       /\ mini_data' = md
       /\ \E c \in GrowChoices(mini_cap, Len(mini_data), mn) :
             mini_cap' = c
       /\ \E outcome \in outcomes :
             /\ mini_ub' = outcome
             /\ mini_size' = (IF outcome = "none" THEN Len(md)
                              ELSE IF outcome = "aborted" THEN mini_size
                              ELSE (mini_size - 1) % SizeModulus)
       /\ op' = o
       /\ arg' = a
       /\ err' = "none"
       /\ ret' = <<>>
       /\ result' = <<>>
       /\ other' = <<StoreOf(mini_data, mini_cap)>>
       /\ old_data' = m_data
       /\ old_cap' = m_cap
       /\ reserved' = NoReserve
       /\ UNCHANGED variant

side_push_back ==
    \E value \in Values : SideStep("push_back", ValArg(value))

side_push_front ==
    \E value \in Values : SideStep("push_front", ValArg(value))

side_pop_front ==
    SideStep("pop_front", NoArg)

side_pop_back ==
    SideStep("pop_back", NoArg)

side_insert ==
    \E pos \in Positions, value \in Values :
           SideStep("insert", PosValArg(pos, value))

side_remove_at ==
    \E pos \in Positions : SideStep("remove_at", PosArg(pos))

side_fill ==
    \E value \in Values : SideStep("fill", ValArg(value))

side_reverse ==
    SideStep("reverse", NoArg)

side_sort ==
    \E ascending \in BOOLEAN : SideStep("sort", FlagArg(ascending))

side_replace_all ==
    \E old_value \in Values, new_value \in Values :
           SideStep("replace_all", TwoValArg(old_value, new_value))

side_clear ==
    SideStep("clear", NoArg)

NextSide ==
    \/ side_push_back
    \/ side_push_front
    \/ side_pop_front
    \/ side_pop_back
    \/ side_insert
    \/ side_remove_at
    \/ side_fill
    \/ side_reverse
    \/ side_sort
    \/ side_replace_all
    \/ side_clear
    \/ discard

SpecSide == InitSide /\ [][NextSide]_vars

\* ------------------------------------------------------------------
\* Vocabulary of the properties
\* ------------------------------------------------------------------
Count(s, v) == Cardinality({i \in 1..Len(s) : s[i] = v})
SameMultiset(s, t) == \A v \in Values : Count(s, v) = Count(t, v)
Elements(s) == {s[i] : i \in 1..Len(s)}
Reverse(s) == [i \in 1..Len(s) |-> s[Len(s) + 1 - i]]
NonDecreasing(s) == \A i \in 1..Len(s) : \A j \in i..Len(s) : s[i] <= s[j]
NonIncreasing(s) == \A i \in 1..Len(s) : \A j \in i..Len(s) : s[i] >= s[j]
StrictlyAscending(s) ==
    \A i \in 1..Len(s) : \A j \in (i + 1)..Len(s) : s[i] < s[j]
NoAdjacentEqual(s) == \A i \in 1..(Len(s) - 1) : s[i] # s[i + 1]
\* the elements of s that start a run of equal adjacent elements, in order
RunHeads(s) ==
    LET keep == {i \in 1..Len(s) : i = 1 \/ s[i] # s[i - 1]}
        nth(k) == CHOOSE i \in keep : Cardinality({j \in keep : j <= i}) = k
    IN [k \in 1..Cardinality(keep) |-> s[nth(k)]]
Slice(s, from, to) == SubSeq(s, from + 1, to)
IsFull == variant = "full"
IsMini == variant = "mini"

\* ------------------------------------------------------------------
\* C1
\* ------------------------------------------------------------------
\* C1 as stated: in both variants 0 <= size() <= capacity() holds in every
\* state reachable by construction, push, pop, insert, remove_at, resize,
\* reserve, shrink_to_fit, clear and swap.
C1_SizeWithinCapacity_AsStated ==
    /\ 0 <= Len(m_data) /\ Len(m_data) <= m_cap
    /\ 0 <= mini_size /\ mini_size <= mini_cap

\* C1 (amended): 0 <= size() <= capacity() holds in every reachable state of
\* the full variant, and in every reachable state of the minimal variant in
\* which pop_back has not been called on an empty container.
C1_SizeWithinCapacity ==
    /\ 0 <= Len(m_data) /\ Len(m_data) <= m_cap
    /\ mini_ub = "none" => (0 <= mini_size /\ mini_size <= mini_cap)
    /\ \A i \in 1..Len(other) : Len(other[i].data) <= other[i].cap

C1_Witness ==
    /\ IsMini /\ op = "pop_back" /\ mini_ub = "none"
    /\ Len(old_data) = 1 /\ mini_size = 0 /\ mini_cap > 0

\* ------------------------------------------------------------------
\* C2
\* ------------------------------------------------------------------
\* C2: full-variant at(pos) fails with OutOfRange iff pos >= size(), and
\* returns the element stored at index pos when pos < size().
C2_AtChecked ==
    (IsFull /\ op = "at") =>
        /\ (err = "OutOfRange") <=> (arg.pos >= Len(m_data))
        /\ arg.pos < Len(m_data) =>
              (err = "none" /\ ret = <<m_data[arg.pos + 1]>>)
        /\ arg.pos >= Len(m_data) => ret = <<>>

C2_Witness ==
    /\ IsFull /\ op = "at" /\ Len(m_data) = 3 /\ arg.pos = 5
    /\ err = "OutOfRange"

\* ------------------------------------------------------------------
\* C3
\* ------------------------------------------------------------------
\* C3: full-variant front, back, mid, max and min fail with OutOfRange on an
\* empty container; otherwise they return the element at index 0, size-1,
\* size/2, a maximal element and a minimal element.
C3_Accessors ==
    (IsFull /\ op \in {"front", "back", "mid", "max", "min"}) =>
        IF m_data = <<>>
        THEN err = "OutOfRange" /\ ret = <<>>
        ELSE /\ err = "none"
             /\ Len(ret) = 1
             /\ op = "front" => ret[1] = m_data[1]
             /\ op = "back" => ret[1] = m_data[Len(m_data)]
             /\ op = "mid" => ret[1] = m_data[(Len(m_data) \div 2) + 1]
             /\ op = "max" => /\ ret[1] \in Elements(m_data)
                              /\ \A x \in Elements(m_data) : x <= ret[1]
             /\ op = "min" => /\ ret[1] \in Elements(m_data)
                              /\ \A x \in Elements(m_data) : ret[1] <= x

C3_Witness ==
    /\ IsFull /\ op = "mid" /\ Len(m_data) = 2 /\ err = "none"
    /\ m_data[1] # m_data[2] /\ ret = <<m_data[2]>>

\* ------------------------------------------------------------------
\* C4
\* ------------------------------------------------------------------
\* C4: full-variant pop_back and pop_front fail with OutOfRange on an empty
\* container; on a container of size n > 0 they remove exactly the last /
\* the first element: size n-1, the other elements in their previous order.
C4_Pop ==
    (IsFull /\ op \in {"pop_back", "pop_front"}) =>
        IF old_data = <<>>
        THEN err = "OutOfRange" /\ m_data = <<>>
        ELSE /\ err = "none"
             /\ Len(m_data) = Len(old_data) - 1
             /\ op = "pop_back" =>
                   \A i \in 1..Len(m_data) : m_data[i] = old_data[i]
             /\ op = "pop_front" =>
                   \A i \in 1..Len(m_data) : m_data[i] = old_data[i + 1]

C4_Witness ==
    /\ IsFull /\ op = "pop_back" /\ err = "none"
    /\ old_data = <<0, 1, 0>> /\ m_data = <<0, 1>>

\* ------------------------------------------------------------------
\* C5
\* ------------------------------------------------------------------
\* C5: full-variant insert(pos, value) succeeds exactly when pos <= size()
\* and fails with OutOfRange when pos > size(); on success the sequence is
\* old[0..pos), value, old[pos..size), one element longer, and inserting at
\* size() gives what push_back(value) gives.
C5_Insert ==
    (IsFull /\ op = "insert") =>
        /\ err \in {"none", "OutOfRange"}
        /\ (err = "none") <=> (arg.pos <= Len(old_data))
        /\ err = "none" =>
              /\ m_data = Slice(old_data, 0, arg.pos) \o <<arg.val>>
                              \o Slice(old_data, arg.pos, Len(old_data))
              /\ Len(m_data) = Len(old_data) + 1
              /\ arg.pos = Len(old_data) =>
                    m_data = push_back_data(old_data, arg.val)

C5_Witness ==
    /\ IsFull /\ op = "insert" /\ err = "none"
    /\ old_data = <<0, 0>> /\ arg.pos = 1 /\ arg.val = 1
    /\ m_data = <<0, 1, 0>>

\* ------------------------------------------------------------------
\* C6
\* ------------------------------------------------------------------
\* C6: full-variant remove_at(pos) fails with OutOfRange exactly when
\* pos >= size(); otherwise the sequence is old[0..pos), old[pos+1..size),
\* one element shorter.
C6_RemoveAt ==
    (IsFull /\ op = "remove_at") =>
        /\ err \in {"none", "OutOfRange"}
        /\ (err = "OutOfRange") <=> (arg.pos >= Len(old_data))
        /\ err = "none" =>
              /\ m_data = Slice(old_data, 0, arg.pos)
                              \o Slice(old_data, arg.pos + 1, Len(old_data))
              /\ Len(m_data) = Len(old_data) - 1

C6_Witness ==
    /\ IsFull /\ op = "remove_at" /\ err = "none"
    /\ old_data = <<0, 1, 0>> /\ arg.pos = 1 /\ m_data = <<0, 0>>

\* ------------------------------------------------------------------
\* C7
\* ------------------------------------------------------------------
\* C7: in the minimal variant pop_front on an empty container, insert with
\* pos > size() and remove_at with pos >= size() signal no error and leave
\* the sequence and the size as they were.
C7_MiniNoOps ==
    (/\ IsMini
     /\ \/ op = "pop_front" /\ old_data = <<>>
        \/ op = "insert" /\ arg.pos > Len(old_data)
        \/ op = "remove_at" /\ arg.pos >= Len(old_data)) =>
        /\ err = "none"
        /\ mini_ub = "none"
        /\ mini_data = old_data
        /\ mini_size = Len(old_data)

C7_Witness ==
    /\ IsMini /\ op = "remove_at" /\ old_data = <<0, 1>> /\ arg.pos = 2
    /\ mini_data = <<0, 1>>

\* ------------------------------------------------------------------
\* C8
\* ------------------------------------------------------------------
\* C8: full-variant filter(pred) returns a new container with exactly the
\* elements satisfying pred, same multiplicity and relative order, and
\* leaves the source's sequence and size unchanged.
C8_Filter ==
    (IsFull /\ op = "filter") =>
        /\ err = "none"
        /\ Len(result) = 1
        /\ LET Holds(x) == arg.pred[x]
               r == result[1].data
           IN /\ r = SelectSeq(old_data, Holds)
              /\ \A v \in Values :
                    Count(r, v) = (IF arg.pred[v] THEN Count(old_data, v) ELSE 0)
        /\ m_data = old_data

C8_Witness ==
    /\ IsFull /\ op = "filter" /\ m_data = <<0, 1, 0>>
    /\ arg.pred = [v \in Values |-> v % 2 = 0]
    /\ Len(result) = 1 /\ result[1].data = <<0, 0>>

\* ------------------------------------------------------------------
\* C9
\* ------------------------------------------------------------------
\* C9: full-variant unique() with auto_sort = true leaves a strictly
\* ascending sequence holding each distinct input value once; minimal
\* unique() only collapses every run of adjacent equal elements and so
\* leaves an input without adjacent equal elements unchanged.
C9_Unique ==
    /\ (IsFull /\ op = "unique" /\ arg.flag) =>
          /\ StrictlyAscending(m_data)
          /\ Elements(m_data) = Elements(old_data)
    /\ (IsMini /\ op = "unique") =>
          /\ mini_data = RunHeads(old_data)
          /\ NoAdjacentEqual(old_data) => mini_data = old_data

C9_Witness ==
    /\ IsMini /\ op = "unique" /\ old_data = <<1, 0, 1>>
    /\ mini_data = <<1, 0, 1>>

\* ------------------------------------------------------------------
\* C10
\* ------------------------------------------------------------------
\* C10: in both variants sort(true) leaves a permutation of the previous
\* contents in non-decreasing order, and sort(false) the same multiset in
\* non-increasing order, the reverse of what sort(true) leaves.
C10_Sort ==
    (op = "sort") =>
        LET d == IF IsFull THEN m_data ELSE mini_data
        IN /\ SameMultiset(d, old_data)
           /\ Len(d) = Len(old_data)
           /\ arg.flag => NonDecreasing(d)
           /\ ~arg.flag => /\ NonIncreasing(d)
                           /\ d = Reverse(std_sort(old_data, TRUE))

C10_Witness ==
    /\ IsMini /\ op = "sort" /\ ~arg.flag /\ old_data = <<0, 1, 0>>
    /\ mini_data = <<1, 0, 0>>

\* ------------------------------------------------------------------
\* C11
\* ------------------------------------------------------------------
IsText == variant = "text"
IsWide == variant = "wide"
Conversions == {"to_int", "to_double", "to_char", "to_string"}

\* C11: full-variant to_int() on a non-empty container of strings raises no
\* error and returns a new container of the same length whose i-th element
\* is the integer parsed from the i-th string, or 0 where parsing fails;
\* the source is unchanged.
C11_ToIntRecovers ==
    (IsText /\ op = "to_int" /\ old_data # <<>>) =>
        /\ err = "none"
        /\ Len(result) = 1
        /\ Len(result[1].data) = Len(old_data)
        /\ \A i \in 1..Len(old_data) :
              result[1].data[i] =
                 (IF stoi_outcome(old_data[i]) = "ok"
                  THEN ParsedValue(old_data[i]) ELSE 0)
        /\ m_data = old_data

C11_Witness ==
    /\ IsText /\ op = "to_int" /\ err = "none"
    /\ m_data = << <<"1", "2">>, <<"a">> >>
    /\ Len(result) = 1 /\ result[1].data = <<12, 0>>

\* ------------------------------------------------------------------
\* C12
\* ------------------------------------------------------------------
\* C12: full-variant to_int, to_double, to_char and to_string fail with
\* RuntimeError on an empty container and produce no result container.
C12_EmptyConversion ==
    (variant \in ConvVariants /\ op \in Conversions /\ old_data = <<>>) =>
        /\ err = "RuntimeError"
        /\ result = <<>>

C12_Witness ==
    /\ IsText /\ op = "to_char" /\ m_data = <<>> /\ err = "RuntimeError"
    /\ result = <<>>

\* ------------------------------------------------------------------
\* C13
\* ------------------------------------------------------------------
\* C13: for every non-empty container s of integers, s.to_string().to_int()
\* has the length and the elements of s, in the same order.
C13_RoundTrip ==
    (variant \in {"full", "wide"} /\ op = "to_string.to_int") =>
        /\ err = "none"
        /\ Len(result) = 1
        /\ Len(result[1].data) = Len(m_data)
        /\ result[1].data = m_data

C13_Witness ==
    /\ IsWide /\ op = "to_string.to_int" /\ m_data = <<INT_MIN, 10>>
    /\ Len(result) = 1 /\ result[1].data = <<INT_MIN, 10>>

\* ------------------------------------------------------------------
\* C14
\* ------------------------------------------------------------------
AnyOfOps == {"any_of", "any_of(value)"}
AllOfOps == {"all_of", "all_of(value)"}
NoneOfOps == {"none_of", "none_of(value)"}

\* C14: on an empty full-variant container any_of is false, all_of is true
\* and none_of is true for every predicate and every value; on any
\* container none_of(x) is the negation of any_of(x).
C14_Quantifiers ==
    (IsFull /\ op \in AnyOfOps \cup AllOfOps \cup NoneOfOps) =>
        /\ err = "none"
        /\ Len(ret) = 1
        /\ m_data = <<>> => ret[1] = (op \notin AnyOfOps)
        /\ op \in AnyOfOps => ret[1] = (\E x \in Elements(m_data) : arg.pred[x])
        /\ op \in NoneOfOps =>
              /\ ret[1] = ~(\E x \in Elements(m_data) : arg.pred[x])
              /\ ret[1] = ~std_any_of(m_data, arg.pred, Len(m_data))

C14_Witness ==
    /\ IsFull /\ op = "none_of" /\ m_data = <<>> /\ ret = <<TRUE>>
    /\ arg.pred = [v \in Values |-> TRUE]

\* ------------------------------------------------------------------
\* C15
\* ------------------------------------------------------------------
\* C15: full-variant find_all(value) and find_all_if(pred) return a strictly
\* ascending sequence of indices that holds i iff i < size() and element i
\* matches; it is empty when nothing matches and the container is unchanged.
C15_FindAll ==
    (IsFull /\ op \in {"find_all", "find_all_if"}) =>
        /\ err = "none"
        /\ StrictlyAscending(ret)
        /\ \A i \in 0..(MaxLen + 1) :
              (i \in Elements(ret)) <=>
                  (i < Len(m_data) /\ arg.pred[m_data[i + 1]])
        /\ Elements(ret) \subseteq 0..(MaxLen + 1)
        /\ (\A x \in Elements(m_data) : ~arg.pred[x]) => ret = <<>>
        /\ op = "find_all" => arg.pred = [v \in Values |-> v = arg.val]
        /\ m_data = old_data

C15_Witness ==
    /\ IsFull /\ op = "find_all" /\ arg.val = 1 /\ m_data = <<1, 0, 1>>
    /\ ret = <<0, 2>>

\* ------------------------------------------------------------------
\* C16
\* ------------------------------------------------------------------
ChainOps == {"filter.sort", "filter.transform", "filter.unique"}

\* C16: in the full variant the result of filter(p) can be followed directly
\* by sort(cmp), transform(f) or unique(), and each of these yields a
\* container (the filtered elements as that stage leaves them) on which the
\* next stage operates.
C16_ChainYieldsContainer ==
    (IsFull /\ op \in ChainOps) =>
        /\ err = "none"
        /\ Len(other) = 1
        /\ Len(result) = 1
        /\ result[1].data = other[1].data

\* ------------------------------------------------------------------
\* C17
\* ------------------------------------------------------------------
IsFullClass == variant \in {"full", "text", "wide"}
ErrorKinds == {"OutOfRange", "InvalidArgument", "RuntimeError"}
\* operations that take a position, and the positions they reject
PositionOps == {"at", "remove_at", "replace_at", "insert"}
BadPosition(o, pos, d) ==
    IF o = "insert" THEN pos > Len(d) ELSE pos >= Len(d)
\* operations that are forbidden on an empty container
NonEmptyOps == {"front", "mid", "back", "max", "min", "pop_front", "pop_back"}

\* C17: over every operation and input of the full variant InvalidArgument
\* is never raised; RuntimeError is raised only by to_int / to_double /
\* to_char / to_string on an empty container; every other failure is an
\* invalid position or a forbidden emptiness and is OutOfRange.
C17_ErrorTaxonomy ==
    IsFullClass =>
        /\ err \in {"none"} \cup ErrorKinds
        /\ err # "InvalidArgument"
        /\ err = "RuntimeError" => (op \in Conversions /\ old_data = <<>>)
        /\ (err # "none" /\ ~(op \in Conversions /\ old_data = <<>>)) =>
              /\ err = "OutOfRange"
              /\ \/ op \in PositionOps /\ BadPosition(op, arg.pos, old_data)
                 \/ op \in NonEmptyOps /\ old_data = <<>>
        /\ err # "none" => m_data = old_data

C17_Witness ==
    /\ IsFull /\ op = "remove_at" /\ arg.pos = 3 /\ old_data = <<0, 1, 0>>
    /\ err = "OutOfRange" /\ m_data = <<0, 1, 0>>

\* ------------------------------------------------------------------
\* C18
\* ------------------------------------------------------------------
\* the container the call was made on, as the call left it
Data == IF IsMini THEN mini_data ELSE m_data
Size == IF IsMini THEN mini_size ELSE Len(m_data)

SizeChangers ==
    {"push_back", "push_back(container)", "push_back(list)",
     "push_front", "push_front(container)", "push_front(list)",
     "emplace_back", "emplace_front", "pop_back", "pop_front",
     "insert", "remove_at", "resize", "clear", "unique", "swap",
     "operator+="}
QueryOps ==
    {"at", "front", "back", "mid", "max", "min", "contains",
     "find", "find_all", "find_all_if", "count", "filter", "print",
     "to_string.to_int"}
        \cup AnyOfOps \cup AllOfOps \cup NoneOfOps \cup Conversions \cup ChainOps
InPlaceOps ==
    {"fill", "replace_all", "replace_at", "transform", "sort", "sort(comp)",
     "reverse"}

\* C18: size changes only through push_back, push_front, emplace, pop_back,
\* pop_front, insert, remove_at, resize, clear, unique, swap and operator+=;
\* every query leaves the sequence of the container unchanged, and fill,
\* replace_all, replace_at, transform, sort and reverse leave size()
\* unchanged.
C18_SizeFrame ==
    (op \notin {"construct", "idle"}) =>
        /\ Size # Len(old_data) => op \in SizeChangers
        /\ op \in QueryOps => Data = old_data
        /\ op \in InPlaceOps => Size = Len(old_data) /\ Len(Data) = Len(old_data)
        /\ (op = "fill" /\ err = "none") => \A i \in 1..Len(Data) : Data[i] = arg.val

C18_Witness ==
    /\ IsFull /\ op = "fill" /\ arg.val = 1
    /\ old_data = <<0, 1, 0>> /\ m_data = <<1, 1, 1>>

\* ------------------------------------------------------------------
\* C19
\* ------------------------------------------------------------------
PushFrontOps == {"push_front", "push_front(container)", "push_front(list)"}
PushBackOps == {"push_back", "push_back(container)", "push_back(list)"}
\* the k elements handed to the call, in their given order
Pushed == IF op \in {"push_front", "push_back"} THEN <<arg.val>> ELSE arg.seq

\* C19: push_front of a single value, an external sequence or a literal list
\* of k elements places them at indices 0..k-1 in their given order and
\* moves every previous element from index i to i+k; push_back of the same
\* arguments places them at indices size..size+k-1 and leaves every
\* previous element at its index.
C19_Push ==
    LET k == Len(Pushed)
        n == Len(old_data)
    IN /\ (op \in PushFrontOps \cup PushBackOps) =>
              /\ err = "none"
              /\ Len(Data) = n + k
              /\ Size = n + k
       /\ op \in PushFrontOps =>
              /\ \A i \in 0..(k - 1) : Data[i + 1] = Pushed[i + 1]
              /\ \A i \in 0..(n - 1) : Data[i + k + 1] = old_data[i + 1]
       /\ op \in PushBackOps =>
              /\ \A i \in 0..(k - 1) : Data[n + i + 1] = Pushed[i + 1]
              /\ \A i \in 0..(n - 1) : Data[i + 1] = old_data[i + 1]

C19_Witness ==
    /\ IsFull /\ op = "push_front(list)" /\ arg.seq = <<0, 1>>
    /\ old_data = <<1>> /\ m_data = <<0, 1, 1>>

\* ------------------------------------------------------------------
\* C20
\* ------------------------------------------------------------------
Cap == IF IsMini THEN mini_cap ELSE m_cap

\* C20: reserve(n) leaves capacity() >= n, changes neither size() nor any
\* element and never lowers capacity; a later sequence of push_back calls
\* that keeps size() <= n does not change capacity().
C20_Reserve ==
    /\ op = "reserve" =>
          /\ err = "none"
          /\ reserved = arg.pos
          /\ Cap >= arg.pos
          /\ Cap >= old_cap
          /\ Data = old_data
          /\ Size = Len(old_data)
    /\ reserved # NoReserve => op \in {"reserve", "push_back", "idle"}
    /\ (reserved # NoReserve /\ Size <= reserved) =>
          /\ Cap >= reserved
          /\ op = "push_back" => Cap = old_cap

C20_Witness ==
    /\ IsFull /\ op = "push_back" /\ reserved = 3
    /\ old_data = <<0>> /\ old_cap = 3
    /\ m_data = <<0, 1>> /\ m_cap = 3

\* ------------------------------------------------------------------
\* C21
\* ------------------------------------------------------------------
\* the indices (from 0) of the elements of s equal to v
MatchingIndices(s, v) == {i \in 0..(Len(s) - 1) : s[i + 1] = v}
Smallest(S) == CHOOSE i \in S : \A j \in S : i <= j

\* C21: in the minimal variant find(value) returns the smallest index whose
\* element equals value and -1 exactly when no element equals value, so for
\* the same container and value find(v) # -1 iff contains(v) iff
\* count(v) > 0.
C21_MiniFind ==
    (IsMini /\ op \in {"find", "contains", "count"}) =>
        LET v == arg.val
            M == MatchingIndices(mini_data, v)
            found == mini_find_result(mini_data, v) # 0 - 1
            has == std_find(mini_data, v, 1) # Len(mini_data) + 1
            many == std_count(mini_data, v, Len(mini_data)) > 0
        IN /\ err = "none"
           /\ mini_data = old_data
           /\ op = "find" =>
                 /\ M # {} => ret[1] = Smallest(M)
                 /\ M = {} <=> ret[1] = 0 - 1
                 /\ (ret[1] # 0 - 1) <=> has
                 /\ (ret[1] # 0 - 1) <=> many
           /\ op = "contains" =>
                 /\ ret[1] <=> M # {}
                 /\ ret[1] <=> found
                 /\ ret[1] <=> many
           /\ op = "count" =>
                 /\ ret[1] = Cardinality(M)
                 /\ (ret[1] > 0) <=> found
                 /\ (ret[1] > 0) <=> has

C21_Witness ==
    /\ IsMini /\ op = "find" /\ arg.val = 1
    /\ mini_data = <<0, 1, 1>> /\ ret = <<1>>

\* ------------------------------------------------------------------
\* C22
\* ------------------------------------------------------------------
CheckedOps ==
    {"at", "front", "back", "mid", "max", "min", "pop_front", "pop_back",
     "remove_at", "insert", "replace_at"} \cup Conversions

\* C22: whenever at, front, back, mid, max, min, pop_front, pop_back,
\* remove_at, insert, replace_at or a to_* conversion of the full variant
\* fails with an error, the element sequence and the size of the container
\* are exactly what they were before the call.
C22_FailureLeavesUnchanged ==
    (IsFullClass /\ op \in CheckedOps /\ err # "none") =>
        /\ m_data = old_data
        /\ Len(m_data) = Len(old_data)
        /\ ret = <<>>
        /\ result = <<>>

C22_Witness ==
    /\ IsFull /\ op = "replace_at" /\ arg.pos = 2 /\ arg.val = 1
    /\ err = "OutOfRange"
    /\ old_data = <<0, 0>> /\ m_data = <<0, 0>>

\* ------------------------------------------------------------------
\* C23
\* ------------------------------------------------------------------
IsBoth == variant = "both"
SideOps ==
    {"push_back", "push_front", "pop_front", "pop_back", "insert",
     "remove_at", "fill", "reverse", "sort", "replace_all", "clear"}

\* C23: running the minimal and the full variant side by side from the same
\* initial contents, after every step of any sequence of push_back,
\* push_front, pop_front, pop_back, insert, remove_at, fill, reverse,
\* sort(bool), replace_all and clear calls that the full variant accepts,
\* both containers hold the same element sequence.
C23_SideBySide ==
    IsBoth =>
        /\ mini_data = m_data
        /\ mini_size = Len(m_data)
        /\ mini_ub = "none"
        /\ op \in SideOps \cup {"construct", "idle"}

C23_Witness ==
    /\ IsBoth /\ op = "pop_front"
    /\ old_data = <<1, 0, 1>> /\ other[1].data = <<1, 0, 1>>
    /\ m_data = <<0, 1>> /\ mini_data = <<0, 1>>

====
